---------------------------- MODULE Spec2Model ----------------------------
(***************************************************************************)
(* A model of discord/sticker.py (class Sticker): construction from a      *)
(* decoded payload, identity (__eq__/__ne__/__hash__), rendering           *)
(* (__str__/__repr__), slot iteration, and the derived accessors (guild,   *)
(* created_at, image_url, image_url_as).                                   *)
(*                                                                         *)
(* Python values are tagged records, [cls |-> <type name>, ...], so that   *)
(* values of different Python types are never equal.  A str is a sequence  *)
(* of one-character strings.                                               *)
(***************************************************************************)
EXTENDS Integers, Sequences, FiniteSets, TLC

VARIABLES
    self,   \* the Sticker under study, None until one is constructed
    ctor,   \* the arguments that Sticker was constructed from
    it,     \* the generator of the latest __iter__ call and what it yielded
    last    \* the latest call: its arguments, outcome and collaborator calls

vars == <<self, ctor, it, last>>

---------------------------------------------------------------------------
(* Bounds of the model. *)

\* A payload differs from the base payload in at most MaxDiff keys.
MaxDiff == 2
\* The payload of the other operand of a comparison differs from the base
\* payload in at most OtherDiff keys.
OtherDiff == 1

---------------------------------------------------------------------------
(* Python values. *)

None == [cls |-> "NoneType"]
IntV(n) == [cls |-> "int", v |-> n]
StrV(s) == [cls |-> "str", v |-> s]
BoolV(b) == [cls |-> "bool", v |-> b]
ListV(l) == [cls |-> "list", v |-> l]

\* The outcome of a call: a returned value or a raised exception.
Return(x) == [raised |-> FALSE, value |-> x]
Raise(e, a) == [raised |-> TRUE, exc |-> e, arg |-> a]

\* x == y on the built-in values used here: values of different types are
\* unequal (bool/int coercion does not occur in this file's comparisons).
PyEq(x, y) == x.cls = y.cls /\ x = y

\* The outcomes `x is y` can have.  Objects of different types are never
\* identical; an enum member is a singleton; two equal str objects may or
\* may not be the same object (interning is an implementation detail).
PyIs(x, y) ==
    IF x.cls # y.cls THEN {FALSE}
    ELSE IF x # y THEN {FALSE}
    ELSE IF x.cls = "str" THEN {TRUE, FALSE}
    ELSE {TRUE}

---------------------------------------------------------------------------
(* str methods and int(). *)

Whitespace == {" ", "\t"}
Digits == {"0", "1", "2", "3", "4", "5", "6", "7", "8", "9"}

DigitVal(c) ==
    CASE c = "0" -> 0 [] c = "1" -> 1 [] c = "2" -> 2 [] c = "3" -> 3
      [] c = "4" -> 4 [] c = "5" -> 5 [] c = "6" -> 6 [] c = "7" -> 7
      [] c = "8" -> 8 [] c = "9" -> 9

DigitChar(d) ==
    CASE d = 0 -> "0" [] d = 1 -> "1" [] d = 2 -> "2" [] d = 3 -> "3"
      [] d = 4 -> "4" [] d = 5 -> "5" [] d = 6 -> "6" [] d = 7 -> "7"
      [] d = 8 -> "8" [] d = 9 -> "9"

RECURSIVE LStrip(_)
LStrip(s) ==
    IF s # <<>> /\ Head(s) \in Whitespace THEN LStrip(Tail(s)) ELSE s

RECURSIVE RStrip(_)
RStrip(s) ==
    IF s # <<>> /\ s[Len(s)] \in Whitespace
    THEN RStrip(SubSeq(s, 1, Len(s) - 1))
    ELSE s

\* str.strip(): leading and trailing whitespace removed.
Strip(s) == RStrip(LStrip(s))

\* str.split(sep) for a one-character sep: the pieces between separators,
\* empty pieces kept; always at least one piece.
RECURSIVE SplitFrom(_, _, _)
SplitFrom(s, sep, piece) ==
    IF s = <<>> THEN <<piece>>
    ELSE IF Head(s) = sep
         THEN <<piece>> \o SplitFrom(Tail(s), sep, <<>>)
         ELSE SplitFrom(Tail(s), sep, Append(piece, Head(s)))

Split(s, sep) == SplitFrom(s, sep, <<>>)

\* The value of a non-empty sequence of decimal digits.
RECURSIVE DigitsValue(_, _)
DigitsValue(s, acc) ==
    IF s = <<>> THEN acc
    ELSE DigitsValue(Tail(s), 10 * acc + DigitVal(Head(s)))

\* str(n) / format(n, '') for an int n.
RECURSIVE NatToStr(_)
NatToStr(n) ==
    IF n < 10 THEN <<DigitChar(n)>>
    ELSE Append(NatToStr(n \div 10), DigitChar(n % 10))

IntToStr(n) == IF n < 0 THEN <<"-">> \o NatToStr(-n) ELSE NatToStr(n)

\* int(x): an int is returned as is; a str is stripped of whitespace and
\* read as an optionally signed run of decimal digits, anything else in it
\* is a ValueError; other types are a TypeError.
PyInt(x) ==
    IF x.cls = "int" THEN Return(x)
    ELSE IF x.cls = "str" THEN
        LET t == Strip(x.v)
            signed == t # <<>> /\ Head(t) \in {"+", "-"}
            body == IF signed THEN Tail(t) ELSE t
        IN  IF body # <<>> /\ \A i \in 1..Len(body) : body[i] \in Digits
            THEN Return(IntV(IF signed /\ Head(t) = "-"
                            THEN -DigitsValue(body, 0)
                            ELSE DigitsValue(body, 0)))
            ELSE Raise("ValueError", "int")
    ELSE Raise("TypeError", "int")

---------------------------------------------------------------------------
(* Collaborators that live outside sticker.py. *)

EnumMember(cls, name, value) == [cls |-> cls, name |-> name, value |-> value]

StickerFormatType ==
    { EnumMember("StickerFormatType", <<"p", "n", "g">>, 1),
      EnumMember("StickerFormatType", <<"a", "p", "n", "g">>, 2),
      EnumMember("StickerFormatType", <<"l", "o", "t", "t", "i", "e">>, 3),
      EnumMember("StickerFormatType", <<"g", "i", "f">>, 4) }

StickerType ==
    { EnumMember("StickerType", <<"p", "n", "g">>, 1),
      EnumMember("StickerType", <<"a", "p", "n", "g">>, 2),
      EnumMember("StickerType", <<"l", "o", "t", "t", "i", "e">>, 3) }

\* StickerType.lottie
StickerType_lottie == EnumMember("StickerType", <<"l", "o", "t", "t", "i", "e">>, 3)

\* try_enum(cls, val): the member whose value is val, else val itself.
try_enum(members, val) ==
    IF val.cls = "int" /\ \E m \in members : m.value = val.v
    THEN CHOOSE m \in members : m.value = val.v
    ELSE val

\* str(m) of an enum member: its label.
EnumLabel(m) == StrV(m.name)

\* str(x): a str is itself, an int its decimal rendering, an enum member
\* its label.
PyStr(x) ==
    CASE x.cls = "str" -> x
      [] x.cls = "int" -> StrV(IntToStr(x.v))
      [] x.cls = "NoneType" -> StrV(<<"N", "o", "n", "e">>)
      [] x.cls = "bool" -> StrV(IF x.v THEN <<"T", "r", "u", "e">>
                                      ELSE <<"F", "a", "l", "s", "e">>)
      [] x.cls \in {"StickerFormatType", "StickerType"} -> EnumLabel(x)

\* utils.snowflake_time(id): the creation time held in the id's upper
\* bits, here as milliseconds after the Discord epoch.
snowflake_time(id) == [cls |-> "datetime", ms_after_epoch |-> id.v \div 4194304]

\* ConnectionState._get_guild(id): the cached guild with that id, or None.
get_guild(state, id) ==
    IF \E g \in state.guilds : PyEq(g.id, id)
    THEN CHOOSE g \in state.guilds : PyEq(g.id, id)
    ELSE None

\* The sizes utils.valid_icon_size accepts: powers of two in [16, 4096].
ValidIconSizes == {16, 32, 64, 128, 256, 512, 1024, 2048, 4096}

\* Asset._from_sticker_url(state, sticker, size=size): InvalidArgument for
\* an invalid size, else the asset addressed by the sticker's id and image.
from_sticker_url(state, sticker, size) ==
    IF ~(size.cls = "int" /\ size.v \in ValidIconSizes)
    THEN Raise("InvalidArgument", "size")
    ELSE Return([cls |-> "Asset", state |-> state,
                 sticker_id |-> sticker.attrs["id"],
                 image |-> sticker.attrs["image"], size |-> size])

---------------------------------------------------------------------------
(* The inputs of construction: guild references, states, payloads. *)

Guild(n) == [cls |-> "Guild", id |-> IntV(n)]
Guilds == {Guild(41), Guild(42)}

ConnectionState(gs) == [cls |-> "ConnectionState", guilds |-> gs]
States == {ConnectionState({Guild(41)})}

\* The keys a payload may hold, and the order in which they are varied.
KeyOrder == <<"id", "name", "description", "pack_id", "format_type", "asset",
              "type", "version", "available", "tags", "preview_asset",
              "guild_id">>

\* A key the payload does not hold.
Absent == [cls |-> "absent"]

\* The base payload: the required keys alone.
BaseChoice ==
    [k \in {KeyOrder[i] : i \in 1..Len(KeyOrder)} |->
        CASE k = "id" -> StrV(<<"1", "2", "3">>)
          [] k = "name" -> StrV(<<"n">>)
          [] k = "description" -> StrV(<<"d">>)
          [] k = "format_type" -> IntV(1)
          [] k = "type" -> IntV(1)
          [] k = "version" -> IntV(1)
          [] k = "available" -> BoolV(TRUE)
          [] OTHER -> Absent]

\* What each key may hold instead of its base value.
Alternatives(k) ==
    CASE k = "id" -> {Absent, StrV(<<"0", "1", "2", "3">>),
                      StrV(<<"4", "1", "9", "4", "3", "0", "4">>),
                      StrV(<<"1", "2", "x">>)}
      [] k = "name" -> {Absent, StrV(<<"a", " ", "b">>)}
      [] k = "description" -> {Absent, None}
      [] k = "pack_id" -> {StrV(<<" ", "5", "0">>), StrV(<<>>)}
      [] k = "format_type" -> {Absent, IntV(2), IntV(3), IntV(4), IntV(5)}
      [] k = "asset" -> {StrV(<<"h">>)}
      [] k = "type" -> {Absent, IntV(9)}
      [] k = "version" -> {Absent}
      [] k = "available" -> {Absent, BoolV(FALSE)}
      [] k = "tags" -> {StrV(<<"a", ",", " ", "b", " ", ",", "c">>),
                        StrV(<<"a", ",", ",", "b">>),
                        StrV(<<>>),
                        StrV(<<" ", "a", " ", "b", "\t", ",">>),
                        None}
      [] k = "preview_asset" -> {None, StrV(<<"p">>)}
      [] k = "guild_id" -> {StrV(<<"9", "9">>)}

\* What a key of the other operand's payload may hold instead of its base
\* value: fewer values, none of which fails construction.
OtherAlternatives(k) ==
    CASE k = "id" -> {StrV(<<"0", "1", "2", "3">>),
                      StrV(<<"4", "1", "9", "4", "3", "0", "4">>)}
      [] k = "name" -> {StrV(<<"a", " ", "b">>)}
      [] k = "pack_id" -> {StrV(<<" ", "5", "0">>)}
      [] k = "format_type" -> {IntV(2), IntV(3), IntV(4), IntV(5)}
      [] k = "tags" -> {StrV(<<"a", ",", " ", "b", " ", ",", "c">>)}
      [] OTHER -> {}

\* The choices for keys i..Len(KeyOrder) that change at most d of them, a
\* changed key k taking its value from alts[k].
RECURSIVE Choices(_, _, _)
Choices(alts, i, d) ==
    IF i > Len(KeyOrder) THEN {<<>>}
    ELSE LET k == KeyOrder[i]
         IN  {<<BaseChoice[k]>> \o c : c \in Choices(alts, i + 1, d)}
             \cup (IF d = 0 THEN {}
                   ELSE {<<a>> \o c : a \in alts[k],
                                      c \in Choices(alts, i + 1, d - 1)})

\* The dict a sequence of choices stands for: absent keys are not in it.
PayloadOf(c) ==
    [k \in {KeyOrder[i] : i \in {j \in 1..Len(KeyOrder) : c[j] # Absent}} |->
        c[CHOOSE i \in 1..Len(KeyOrder) : KeyOrder[i] = k]]

Payloads ==
    {PayloadOf(c) : c \in Choices([k \in DOMAIN BaseChoice |-> Alternatives(k)],
                                  1, MaxDiff)}
OtherPayloads ==
    {PayloadOf(c) : c \in Choices([k \in DOMAIN BaseChoice |-> OtherAlternatives(k)],
                                  1, OtherDiff)}

---------------------------------------------------------------------------
(* class Sticker. *)

__slots__ == <<"_state", "id", "guild_id", "name", "description", "pack_id",
               "format", "image", "type", "version", "available", "tags",
               "preview_image">>

\* attr[0] for each slot name.
FirstChar(attr) ==
    CASE attr = "_state" -> "_"
      [] attr = "id" -> "i"
      [] attr = "guild_id" -> "g"
      [] attr = "name" -> "n"
      [] attr = "description" -> "d"
      [] attr = "pack_id" -> "p"
      [] attr = "format" -> "f"
      [] attr = "image" -> "i"
      [] attr = "type" -> "t"
      [] attr = "version" -> "v"
      [] attr = "available" -> "a"
      [] attr = "tags" -> "t"
      [] attr = "preview_image" -> "p"

\* An object whose slots are all unset.
NewSticker == [cls |-> "Sticker", attrs |-> <<>>]

\* self.<a> = v
SetAttr(o, a, v) ==
    [o EXCEPT !.attrs = [x \in (DOMAIN @) \cup {a} |-> IF x = a THEN v ELSE @[x]]]

\* getattr(o, a, default)
GetAttr(o, a, default) == IF a \in DOMAIN o.attrs THEN o.attrs[a] ELSE default

\* Mutant: a missing key reads as None.
SubscriptOrNone(d, k) == IF k \in DOMAIN d THEN Return(d[k]) ELSE Return(None)

\* d[k]: the item, or KeyError when d has no key k
Subscript(d, k) == IF k \in DOMAIN d THEN Return(d[k]) ELSE Raise("KeyError", k)

\* Mutant: the default whether or not the key is there.
DictGetDefault(d, k, default) == default

\* dict.get(k, default)
DictGet(d, k, default) == IF k \in DOMAIN d THEN d[k] ELSE default

\* Mutant: pieces that are empty after trimming are dropped.
SplitTagsNonEmpty(s) ==
    LET pieces == Split(s, ",")
    IN  SelectSeq([i \in 1..Len(pieces) |-> StrV(Strip(pieces[i]))],
                  LAMBDA t : t.v # <<>>)

\* [tag.strip() for tag in s.split(',')]
SplitTags(s) ==
    LET pieces == Split(s, ",")
    IN  [i \in 1..Len(pieces) |-> StrV(Strip(pieces[i]))]

\* Sticker._from_data: the statements in order; the first one that raises
\* ends the call, except a KeyError inside the two try blocks.
_from_data(o, sticker) ==
    LET id_item == Subscript(sticker, "id") IN
    IF id_item.raised THEN id_item ELSE
    LET id == PyInt(id_item.value) IN
    IF id.raised THEN id ELSE
    LET o1 == SetAttr(o, "id", id.value)
        name == Subscript(sticker, "name") IN
    IF name.raised THEN name ELSE
    LET o2 == SetAttr(o1, "name", name.value)
        description == Subscript(sticker, "description") IN
    IF description.raised THEN description ELSE
    LET o3 == SetAttr(o2, "description", description.value)
        pack_id == PyInt(DictGet(sticker, "pack_id", IntV(0))) IN
    IF pack_id.raised THEN pack_id ELSE
    LET o4 == SetAttr(o3, "pack_id", pack_id.value)
        format_type == Subscript(sticker, "format_type") IN
    IF format_type.raised THEN format_type ELSE
    LET o5 == SetAttr(o4, "format",
                      PyStr(try_enum(StickerFormatType, format_type.value)))
        asset == Subscript(sticker, "asset")
        o6 == SetAttr(o5, "image",
                      IF asset.raised THEN StrV(<<>>) ELSE asset.value)
        type == Subscript(sticker, "type") IN
    IF type.raised THEN type ELSE
    LET o7 == SetAttr(o6, "type", try_enum(StickerType, type.value))
        version == Subscript(sticker, "version") IN
    IF version.raised THEN version ELSE
    LET o8 == SetAttr(o7, "version", version.value)
        available == Subscript(sticker, "available") IN
    IF available.raised THEN available ELSE
    LET o9 == SetAttr(o8, "available", available.value)
        tags == Subscript(sticker, "tags") IN
    IF ~tags.raised /\ tags.value.cls # "str"
    THEN Raise("AttributeError", "split") ELSE
    LET o10 == SetAttr(o9, "tags",
                       IF tags.raised THEN ListV(<<>>)
                       ELSE ListV(SplitTags(tags.value.v)))
        o11 == SetAttr(o10, "preview_image",
                       DictGet(sticker, "preview_asset", None))
    IN  Return(o11)

\* Sticker(guild=guild, state=state, data=data): the new object, or the
\* exception that ended its construction.
Sticker__init__(guild, state, data) ==
    LET o1 == SetAttr(NewSticker, "guild_id", guild.id)
        o2 == SetAttr(o1, "_state", state)
    IN  _from_data(o2, data)

\* bool(x)
Truthy(x) ==
    CASE x.cls = "NoneType" -> FALSE
      [] x.cls = "bool" -> x.v
      [] x.cls = "int" -> x.v # 0
      [] x.cls \in {"str", "list"} -> x.v # <<>>
      [] OTHER -> TRUE

\* Mutant: `if value:` in place of `if value is not None:`.
RECURSIVE NextYieldTruthy(_, _)
NextYieldTruthy(o, i) ==
    IF i > Len(__slots__) THEN i
    ELSE IF FirstChar(__slots__[i]) # "_"
            /\ Truthy(GetAttr(o, __slots__[i], None))
         THEN i
         ELSE NextYieldTruthy(o, i + 1)

\* The index of the first slot at or after i that _iterator yields, or
\* Len(__slots__) + 1 when the loop ends without a yield.
RECURSIVE NextYield(_, _)
NextYield(o, i) ==
    IF i > Len(__slots__) THEN i
    ELSE IF FirstChar(__slots__[i]) # "_"
            /\ GetAttr(o, __slots__[i], None).cls # "NoneType"
         THEN i
         ELSE NextYield(o, i + 1)

\* '{0.name}'-style formatting of a value: format(x, '') is str(x).
Fmt(x) == PyStr(x).v

\* repr(x) of a str: quoted, a tab escaped (the strings here hold no quote).
RECURSIVE Escaped(_)
Escaped(s) ==
    IF s = <<>> THEN <<>>
    ELSE (IF Head(s) = "\t" THEN <<"\\", "t">> ELSE <<Head(s)>>) \o Escaped(Tail(s))

PyRepr(x) ==
    IF x.cls = "str" THEN <<"'">> \o Escaped(x.v) \o <<"'">> ELSE Fmt(x)

Sticker__repr__(s) ==
    StrV(<<"<", "S", "t", "i", "c", "k", "e", "r", " ", "i", "d", "=">>
         \o Fmt(s.attrs["id"])
         \o <<" ", "n", "a", "m", "e", "=">> \o PyRepr(s.attrs["name"])
         \o <<" ", "f", "o", "r", "m", "a", "t", "=">> \o Fmt(s.attrs["format"])
         \o <<" ", "t", "y", "p", "e", "=">> \o Fmt(s.attrs["type"])
         \o <<">">>)

\* Mutant: gif left out of the animated formats.
Sticker__str__no_gif(s) ==
    IF \/ PyEq(s.attrs["format"], StrV(<<"a", "p", "n", "g">>))
       \/ PyEq(s.attrs["format"], StrV(<<"l", "o", "t", "t", "i", "e">>))
    THEN StrV(<<"<", "a", ":">> \o Fmt(s.attrs["name"]) \o <<":">>
              \o Fmt(s.attrs["id"]) \o <<">">>)
    ELSE StrV(<<"<", ":">> \o Fmt(s.attrs["name"]) \o <<":">>
              \o Fmt(s.attrs["id"]) \o <<">">>)

Sticker__str__(s) ==
    IF \/ PyEq(s.attrs["format"], StrV(<<"a", "p", "n", "g">>))
       \/ PyEq(s.attrs["format"], StrV(<<"l", "o", "t", "t", "i", "e">>))
       \/ PyEq(s.attrs["format"], StrV(<<"g", "i", "f">>))
    THEN StrV(<<"<", "a", ":">> \o Fmt(s.attrs["name"]) \o <<":">>
              \o Fmt(s.attrs["id"]) \o <<">">>)
    ELSE StrV(<<"<", ":">> \o Fmt(s.attrs["name"]) \o <<":">>
              \o Fmt(s.attrs["id"]) \o <<">">>)

\* Mutant: equality that also compares the guild.
Sticker__eq__guild(s, other) ==
    /\ other.cls = "Sticker"
    /\ PyEq(s.attrs["id"], other.attrs["id"])
    /\ PyEq(s.attrs["guild_id"], other.attrs["guild_id"])

Sticker__eq__(s, other) ==
    other.cls = "Sticker" /\ PyEq(s.attrs["id"], other.attrs["id"])

Sticker__ne__(s, other) == ~Sticker__eq__(s, other)

\* n >> k
Shr(n, k) == n \div (2 ^ k)

Sticker__hash__(s) == Shr(s.attrs["id"].v, 22)

\* A call made to a collaborator.
Call(fn, args) == [fn |-> fn, args |-> args]

\* What an operation did: its outcome and the collaborator calls it made.
Did(out, calls) == [out |-> out, calls |-> calls]

guild(s) ==
    Did(Return(get_guild(s.attrs["_state"], s.attrs["guild_id"])),
        <<Call("_get_guild", <<s.attrs["guild_id"]>>)>>)

created_at(s) ==
    Did(Return(snowflake_time(s.attrs["id"])),
        <<Call("snowflake_time", <<s.attrs["id"]>>)>>)

\* The default of image_url_as's size parameter.
DefaultSize == 1024

\* Mutant: an invalid size is replaced by the default.
image_url_as_clamped(s, arg) ==
    LET asked == IF arg = Absent THEN IntV(DefaultSize) ELSE arg
        size == IF asked.v \in ValidIconSizes THEN asked ELSE IntV(DefaultSize)
    IN  { IF is_lottie
          THEN Did(Return(None), <<>>)
          ELSE Did(from_sticker_url(s.attrs["_state"], s, size),
                   <<Call("Asset._from_sticker_url",
                          <<s.attrs["_state"], s, size>>)>>)
          : is_lottie \in PyIs(s.attrs["format"], StickerType_lottie) }

\* Sticker.image_url_as(size=...): the results it can have.  arg is the
\* size the caller gives, Absent when the caller gives none.
image_url_as(s, arg) ==
    LET size == IF arg = Absent THEN IntV(DefaultSize) ELSE arg
    IN  { IF is_lottie
          THEN Did(Return(None), <<>>)
          ELSE Did(from_sticker_url(s.attrs["_state"], s, size),
                   <<Call("Asset._from_sticker_url",
                          <<s.attrs["_state"], s, size>>)>>)
          : is_lottie \in PyIs(s.attrs["format"], StickerType_lottie) }

\* Sticker.image_url: image_url_as() with no argument.
image_url(s) == image_url_as(s, Absent)

---------------------------------------------------------------------------
(* The operands of comparisons, and the size arguments. *)

\* Stickers other than self, all of guild 42 and with a state of their own.
OtherStickers ==
    LET made == {Sticker__init__(Guild(42), ConnectionState({}), d) :
                    d \in OtherPayloads}
    IN  {r.value : r \in {m \in made : ~m.raised}}

\* Objects that are not Stickers, one of them with the base payload's id.
NonStickers ==
    {None, IntV(123), [cls |-> "Emoji", attrs |-> [id |-> IntV(123)]]}

Others == OtherStickers \cup NonStickers

Sizes == {IntV(7), IntV(16), IntV(100), IntV(4096), IntV(8192)}

---------------------------------------------------------------------------
(* The state machine: one Sticker is constructed, then used by a caller    *)
(* that makes one call at a time and lets go of each result (Drop) before  *)
(* its next call; a generator is held until it is let go of.               *)

Done(op, args, did) ==
    [op |-> op, args |-> args, out |-> did.out, calls |-> did.calls]

\* No call is in hand.
Idle == Done("none", <<>>, Did(Return(None), <<>>))

Init ==
    /\ self = None
    /\ ctor = None
    /\ it = None
    /\ last = Idle

\* The caller lets go of the latest result, and of the generator if any.
Drop ==
    /\ last # Idle
    /\ last' = Idle
    /\ it' = None
    /\ UNCHANGED <<self, ctor>>

\* Sticker(guild=g, state=st, data=d)
Construct ==
    /\ self = None
    /\ last = Idle
    /\ \E g \in Guilds, st \in States, d \in Payloads :
          LET r == Sticker__init__(g, st, d)
          IN  /\ self' = IF r.raised THEN None ELSE r.value
              /\ ctor' = IF r.raised THEN None
                         ELSE [guild |-> g, state |-> st, data |-> d]
              /\ last' = Done("__init__", <<g, st, d>>,
                              Did(IF r.raised THEN r ELSE Return(None), <<>>))
    /\ UNCHANGED it

\* The operand pairs of a comparison: self with any other object, or
\* another Sticker with self.
Operands == {<<self, o>> : o \in Others} \cup {<<o, self>> : o \in OtherStickers}

\* a == b
Eq ==
    /\ self # None
    /\ last = Idle
    /\ \E ab \in Operands :
          last' = Done("__eq__", ab,
                       Did(Return(BoolV(Sticker__eq__(ab[1], ab[2]))), <<>>))
    /\ UNCHANGED <<self, ctor, it>>

\* a != b
Ne ==
    /\ self # None
    /\ last = Idle
    /\ \E ab \in Operands :
          last' = Done("__ne__", ab,
                       Did(Return(BoolV(Sticker__ne__(ab[1], ab[2]))), <<>>))
    /\ UNCHANGED <<self, ctor, it>>

\* hash(self)
Hash ==
    /\ self # None
    /\ last = Idle
    /\ last' = Done("__hash__", <<self>>, Did(Return(IntV(Sticker__hash__(self))), <<>>))
    /\ UNCHANGED <<self, ctor, it>>

\* str(self)
ToStr ==
    /\ self # None
    /\ last = Idle
    /\ last' = Done("__str__", <<self>>, Did(Return(Sticker__str__(self)), <<>>))
    /\ UNCHANGED <<self, ctor, it>>

\* repr(self)
Repr ==
    /\ self # None
    /\ last = Idle
    /\ last' = Done("__repr__", <<self>>, Did(Return(Sticker__repr__(self)), <<>>))
    /\ UNCHANGED <<self, ctor, it>>

\* iter(self): a new generator, positioned before the first slot
Iter ==
    /\ self # None
    /\ last = Idle
    /\ it' = [cls |-> "generator", pos |-> 1, done |-> FALSE, yielded |-> <<>>]
    /\ last' = Done("__iter__", <<self>>, Did(Return([cls |-> "generator"]), <<>>))
    /\ UNCHANGED <<self, ctor>>

\* next(it): _iterator runs to its next yield, or to its end
GenNext ==
    /\ self # None
    /\ it # None
    /\ LET j == IF it.done THEN Len(__slots__) + 1 ELSE NextYield(self, it.pos)
       IN  IF j <= Len(__slots__)
           THEN LET pair == <<__slots__[j], self.attrs[__slots__[j]]>>
                IN  /\ it' = [it EXCEPT !.pos = j + 1,
                                        !.yielded = Append(@, pair)]
                    /\ last' = Done("next", <<>>, Did(Return(pair), <<>>))
           ELSE /\ it' = [it EXCEPT !.pos = j, !.done = TRUE]
                /\ last' = Done("next", <<>>, Did(Raise("StopIteration", ""), <<>>))
    /\ UNCHANGED <<self, ctor>>

\* Mutant: the lookup's result is stored over guild_id.
GetGuildCaching ==
    /\ self # None
    /\ last = Idle
    /\ last' = Done("guild", <<self>>, guild(self))
    /\ self' = SetAttr(self, "guild_id", guild(self).out.value)
    /\ UNCHANGED <<ctor, it>>

\* self.guild
GetGuild ==
    /\ self # None
    /\ last = Idle
    /\ last' = Done("guild", <<self>>, guild(self))
    /\ UNCHANGED <<self, ctor, it>>

\* self.created_at
CreatedAt ==
    /\ self # None
    /\ last = Idle
    /\ last' = Done("created_at", <<self>>, created_at(self))
    /\ UNCHANGED <<self, ctor, it>>

\* self.image_url
ImageUrl ==
    /\ self # None
    /\ last = Idle
    /\ \E did \in image_url(self) : last' = Done("image_url", <<self>>, did)
    /\ UNCHANGED <<self, ctor, it>>

\* self.image_url_as(size=size), or self.image_url_as() when size is Absent
ImageUrlAs ==
    /\ self # None
    /\ last = Idle
    /\ \E size \in Sizes \cup {Absent} : \E did \in image_url_as(self, size) :
          last' = Done("image_url_as", <<self, size>>, did)
    /\ UNCHANGED <<self, ctor, it>>

Next ==
    \/ Construct
    \/ Eq
    \/ Ne
    \/ Hash
    \/ ToStr
    \/ Repr
    \/ Iter
    \/ GenNext
    \/ GetGuild
    \/ CreatedAt
    \/ ImageUrl
    \/ ImageUrlAs
    \/ Drop

Spec == Init /\ [][Next]_vars

---------------------------------------------------------------------------
(* Properties. *)

Constructed == self # None

\* The chars of a str-valued attribute of self.
Label(a) == self.attrs[a].v

Apng == <<"a", "p", "n", "g">>
Lottie == <<"l", "o", "t", "t", "i", "e">>
Gif == <<"g", "i", "f">>

\* C1: two Stickers with the same id are equal in both directions, not
\* unequal, and hash alike, whatever their other fields and guilds are;
\* __eq__ is false for a non-Sticker and for a Sticker of another id.
C1_EqualityById ==
    /\ last.op \in {"__eq__", "__ne__"} =>
          LET a == last.args[1]
              b == last.args[2]
              same == b.cls = "Sticker" /\ a.attrs["id"].v = b.attrs["id"].v
          IN  last.out = Return(BoolV(IF last.op = "__eq__" THEN same ELSE ~same))
    /\ last.op = "__hash__" =>
          \A o \in OtherStickers :
             o.attrs["id"].v = self.attrs["id"].v =>
                last.out = Return(IntV(Sticker__hash__(o)))

\* C1 witness: an equal Sticker of another guild, made from another payload
\* (the tags differ), compared with self on its right.
C1_Witness ==
    /\ last.op = "__eq__"
    /\ last.args[2] = self
    /\ last.args[1].attrs["guild_id"] # self.attrs["guild_id"]
    /\ last.args[1].attrs["tags"] # self.attrs["tags"]
    /\ last.out = Return(BoolV(TRUE))

\* C2 (as claimed): image_url_as on a lottie Sticker returns None for every
\* size and calls no collaborator.
C2_LottieHasNoUrl ==
    (last.op = "image_url_as" /\ Label("format") = Lottie) =>
        /\ last.out = Return(None)
        /\ last.calls = <<>>

C4_StrIsName ==
    last.op = "__str__" => last.out = Return(self.attrs["name"])

\* The payload self was constructed from.
Data == ctor.data

\* The payload of the construction just attempted.
Tried == last.args[3]

RequiredKeys == {"id", "name", "description", "format_type", "type",
                 "version", "available"}
OptionalKeys == {"pack_id", "asset", "tags", "preview_asset"}

\* A str that reads as an integer: whitespace, an optional sign and one or
\* more digits, whitespace.
IntegerText(x) ==
    /\ x.cls = "str"
    /\ \E lo \in 1..Len(x.v) : \E hi \in lo..Len(x.v) :
          /\ \A i \in 1..Len(x.v) : (i < lo \/ i > hi) => x.v[i] \in Whitespace
          /\ x.v[hi] \in Digits
          /\ x.v[lo] \in Digits \cup {"+", "-"}
          /\ \A i \in (lo + 1)..hi : x.v[i] \in Digits

\* The k-th piece of s between commas (k = 1 .. number of commas + 1),
\* without its leading and trailing whitespace.
TrimmedPiece(s, k) ==
    LET commas == {i \in 1..Len(s) : s[i] = ","}
        nth(n) == CHOOSE i \in commas : Cardinality({j \in commas : j < i}) = n - 1
        lo == IF k = 1 THEN 1 ELSE nth(k - 1) + 1
        hi == IF k = Cardinality(commas) + 1 THEN Len(s) ELSE nth(k) - 1
        inked == {i \in lo..hi : s[i] \notin Whitespace}
    IN  IF inked = {} THEN <<>>
        ELSE SubSeq(s, CHOOSE i \in inked : \A j \in inked : i <= j,
                       CHOOSE i \in inked : \A j \in inked : i >= j)

\* C5: tags is always a list; empty without a 'tags' key; else the trimmed
\* pieces between the commas, in order, one more than there are commas,
\* empty pieces kept.
C5_TagsSplitAndTrimmed ==
    Constructed =>
        LET tags == self.attrs["tags"]
        IN  /\ tags.cls = "list"
            /\ "tags" \notin DOMAIN Data => tags.v = <<>>
            /\ "tags" \in DOMAIN Data =>
                  LET text == Data["tags"].v
                      commas == Cardinality({i \in 1..Len(text) : text[i] = ","})
                  IN  /\ Len(tags.v) = commas + 1
                      /\ \A k \in 1..(commas + 1) :
                            tags.v[k] = StrV(TrimmedPiece(text, k))
            /\ ("tags" \in DOMAIN Data
                /\ Data["tags"].v = <<"a", ",", " ", "b", " ", ",", "c">>)
               => tags.v = <<StrV(<<"a">>), StrV(<<"b">>), StrV(<<"c">>)>>
            /\ ("tags" \in DOMAIN Data /\ Data["tags"].v = <<"a", ",", ",", "b">>)
               => tags.v = <<StrV(<<"a">>), StrV(<<>>), StrV(<<"b">>)>>

\* C5 witness: a Sticker made from tags "a,,b", its empty piece kept.
C5_Witness ==
    /\ Constructed
    /\ "tags" \in DOMAIN Data
    /\ Data["tags"].v = <<"a", ",", ",", "b">>
    /\ Len(self.attrs["tags"].v) = 3

\* What C6 says of the optional keys of payload d and the fields of self.
OptionalDefaults(d) ==
    /\ "pack_id" \notin DOMAIN d => self.attrs["pack_id"] = IntV(0)
    /\ "asset" \notin DOMAIN d => self.attrs["image"] = StrV(<<>>)
    /\ "preview_asset" \notin DOMAIN d => self.attrs["preview_image"] = None
    /\ "pack_id" \in DOMAIN d =>
          /\ self.attrs["pack_id"].cls = "int"
          /\ d["pack_id"] = StrV(<<" ", "5", "0">>) => self.attrs["pack_id"].v = 50
    /\ "asset" \in DOMAIN d => self.attrs["image"] = d["asset"]
    /\ "preview_asset" \in DOMAIN d => self.attrs["preview_image"] = d["preview_asset"]

\* C6 (as claimed): a payload with all required keys that omits an optional
\* key constructs, with the defaults for the omitted keys and the payload's
\* values for the others.
C6_OptionalKeysDefault ==
    (/\ last.op = "__init__"
     /\ RequiredKeys \subseteq DOMAIN Tried
     /\ OptionalKeys \ DOMAIN Tried # {})
    => /\ ~last.out.raised
       /\ Constructed
       /\ OptionalDefaults(Tried)

\* C6 (amended): the same, for payloads whose id, and pack_id if present,
\* read as integers and whose tags, if present, is a str.
C6_OptionalKeysDefaultOfIntegerIds ==
    /\ (/\ last.op = "__init__"
        /\ RequiredKeys \subseteq DOMAIN Tried
        /\ OptionalKeys \ DOMAIN Tried # {}
        /\ IntegerText(Tried["id"])
        /\ "pack_id" \in DOMAIN Tried => IntegerText(Tried["pack_id"])
        /\ "tags" \in DOMAIN Tried => Tried["tags"].cls = "str")
       => /\ ~last.out.raised
          /\ Constructed
          /\ OptionalDefaults(Tried)
    /\ Constructed => OptionalDefaults(Data)

\* C6 witness: of the optional keys only pack_id is given; the others take
\* their defaults.
C6_Witness ==
    /\ last.op = "__init__"
    /\ Constructed
    /\ OptionalKeys \cap DOMAIN Tried = {"pack_id"}
    /\ self.attrs["pack_id"] = IntV(50)
    /\ self.attrs["image"] = StrV(<<>>)

\* The fields C7 lists, in its order.
PublicFields == <<"id", "guild_id", "name", "description", "pack_id", "format",
                  "image", "type", "version", "available", "tags",
                  "preview_image">>

\* The pairs C7 expects of self: the public fields that are not None.
ExpectedPairs ==
    SelectSeq([i \in 1..Len(PublicFields) |->
                  <<PublicFields[i], self.attrs[PublicFields[i]]>>],
              LAMBDA p : p[2].cls # "NoneType")

\* C7: a generator of iter(x) yields, in field order, one pair for each
\* public field that is not None, '', 0, False and [] included, _state
\* never; every generator starts afresh and yields the same pairs.
C7_IterYieldsPublicFields ==
    it # None =>
        /\ Len(it.yielded) <= Len(ExpectedPairs)
        /\ it.yielded = SubSeq(ExpectedPairs, 1, Len(it.yielded))
        /\ it.done => it.yielded = ExpectedPairs
        /\ last.op = "__iter__" => it.yielded = <<>>

\* C7 witness: a finished generator of a Sticker whose image is '', pack_id
\* 0, available False, tags [] and preview_image None.
C7_Witness ==
    /\ it # None
    /\ it.done
    /\ self.attrs["image"] = StrV(<<>>)
    /\ self.attrs["pack_id"] = IntV(0)
    /\ self.attrs["available"] = BoolV(FALSE)
    /\ self.attrs["tags"] = ListV(<<>>)
    /\ self.attrs["preview_image"] = None
    /\ Len(it.yielded) = 11

\* C8 (as claimed): a payload lacking a required key fails construction
\* with a field-access error and leaves no entity.
C8_MissingKeyIsKeyError ==
    (last.op = "__init__" /\ RequiredKeys \ DOMAIN Tried # {})
    => /\ last.out.raised
       /\ last.out.exc = "KeyError"
       /\ ~Constructed

\* C8 (amended): such a payload fails construction and leaves no entity;
\* the failure is the field-access error of a missing required key, unless
\* an id that does not read as an integer, or such a pack_id in a payload
\* holding id, name and description, has failed the integer parse first.
C8_MissingKeyFails ==
    (last.op = "__init__" /\ RequiredKeys \ DOMAIN Tried # {})
    => LET bad_id == "id" \in DOMAIN Tried /\ ~IntegerText(Tried["id"])
           bad_pack == /\ "pack_id" \in DOMAIN Tried
                       /\ ~IntegerText(Tried["pack_id"])
                       /\ {"id", "name", "description"} \subseteq DOMAIN Tried
       IN  /\ last.out.raised
           /\ ~Constructed
           /\ ctor = None
           /\ IF bad_id \/ bad_pack
              THEN last.out.exc = "ValueError"
              ELSE /\ last.out.exc = "KeyError"
                   /\ last.out.arg \in RequiredKeys \ DOMAIN Tried

\* C8 witness: a payload without 'available' has raised KeyError.
C8_Witness ==
    /\ last.op = "__init__"
    /\ "available" \notin DOMAIN Tried
    /\ last.out = Raise("KeyError", "available")
    /\ ~Constructed

\* C9: for a format other than lottie, image_url_as hands the caller's size
\* (1024 when none is given, as image_url does) to the CDN collaborator
\* unchanged and returns or raises what the collaborator does; a size that
\* is no power of two in [16, 4096] ends in InvalidArgument.
C9_SizePassedThrough ==
    (last.op \in {"image_url", "image_url_as"} /\ Label("format") # Lottie)
    => LET given == IF last.op = "image_url" THEN Absent ELSE last.args[2]
           size == IF given = Absent THEN IntV(1024) ELSE given
           state == self.attrs["_state"]
       IN  /\ last.calls = <<Call("Asset._from_sticker_url", <<state, self, size>>)>>
           /\ last.out = from_sticker_url(state, self, size)
           /\ IF \E k \in 4..12 : size.v = 2 ^ k
              THEN ~last.out.raised /\ last.out.value.size = size
              ELSE last.out = Raise("InvalidArgument", "size")

\* C9 witness: image_url_as(size=7) on a png Sticker has raised
\* InvalidArgument.
C9_Witness ==
    /\ last.op = "image_url_as"
    /\ Label("format") = <<"p", "n", "g">>
    /\ last.args[2] = IntV(7)
    /\ last.out = Raise("InvalidArgument", "size")

\* C10: whatever has been called since, self holds the fields its
\* construction set, and guild_id is the id of the guild reference given.
C10_FieldsNeverChange ==
    Constructed =>
        /\ self = Sticker__init__(ctor.guild, ctor.state, ctor.data).value
        /\ self.attrs["guild_id"] = ctor.guild.id

\* C10 witness: a call has ended in the collaborator's error on a Sticker
\* whose payload names another guild.
C10_Witness ==
    /\ Constructed
    /\ "guild_id" \in DOMAIN Data
    /\ last.op = "image_url_as"
    /\ last.out.raised

============================================================================
